---------------------------- MODULE Spec2Model ----------------------------
(***************************************************************************)
(* Model of the composite matching engine of filament:                     *)
(*   src/code/core/search/specificity_search.py  (CompositeMatcher)        *)
(*   src/code/core/utils/geo_utils.py            (haversine, geo score)    *)
(*                                                                         *)
(* Numbers.  Python floats are modelled in fixed point:                    *)
(*   scores and specificities in millionths (ONE = 1.0),                   *)
(*   the reported score in thousandths (round(final_score, 3)),            *)
(*   distances in thousandths of a mile,                                   *)
(*   the bio multiplier in tenths (15 = 1.5).                              *)
(* Dates are ISO 'YYYY-MM-DD' texts, which SQLite compares as text; they   *)
(* are written as the integer YYYYMMDD, which orders the same way.         *)
(* A description is a text; it is modelled as the sequence of its \w+      *)
(* matches (what WORD_PATTERN.findall sees), or SQL NULL.                  *)
(***************************************************************************)
EXTENDS Integers, Sequences, FiniteSets, TLC

VARIABLES
    db,          \* the SQLite database: [uhr |-> rows, mp |-> rows], in scan order
    matcher,     \* the CompositeMatcher instance of the calling process (self)
    num_workers, \* os.cpu_count() or 4, as the current call read it (0: not read)
    pc,          \* "idle" | "running" | "shutdown" | "done" | "probe" | "probed"
    args,        \* the arguments of the current find_leads call
    stats,       \* the stats dict built by find_leads (lines 157-161)
    chunks,      \* the chunks submitted (parallel) or the whole list (sequential)
    wk,          \* per chunk: the _match_chunk invocation working on it
    collected,   \* how many futures the coordinator has consumed
    all_leads,   \* the coordinator's merged list
    outcome,     \* how the call ended: returned list or raised
    calls,       \* find_leads calls made on this instance so far
    probe,       \* inputs and outputs of one application of the score combination
    conns        \* the sqlite3 connections of the current call, in opening order

vars == <<db, matcher, num_workers, pc, args, stats, chunks, wk, collected,
          all_leads, outcome, calls, probe, conns>>

----------------------------------------------------------------------------
(* Bounds of the model *)

MaxUhr == 3
MaxMp == 2
MaxWorkers == 2
MaxCalls == 2
GridN == 4

----------------------------------------------------------------------------
(* Values *)

\* SQL NULL / Python None in a numeric column
NULL == -999
\* SQL NULL / Python None in a text column other than the description
NONE == "<None>"
\* fixed point: 1.0 in millionths
ONE == 1000000

NullText == [null |-> TRUE, words |-> << >>]
Text(ws) == [null |-> FALSE, words |-> ws]

\* Python truthiness of an Optional[int] / Optional[str] / Optional text
TruthyNum(x) == x # NULL /\ x # 0
TruthyStr(s) == s # NONE /\ s # ""
TruthyText(t) == ~t.null /\ Len(t.words) > 0

Min(a, b) == IF a <= b THEN a ELSE b
Max(a, b) == IF a >= b THEN a ELSE b

Range(s) == {s[i] : i \in 1..Len(s)}

----------------------------------------------------------------------------
(* Tokenisation: WORD_PATTERN, str.lower, len, str.isdigit, stop words *)

\* the configured stop-word set (CompositeMatcher.__init__)
stop_words ==
    {"the", "and", "was", "with", "found", "on", "in", "at", "of", "for", "to", "is", "has",
     "unknown", "unsure", "uncertain", "years", "old", "male", "female", "white", "black",
     "caucasian", "american", "african", "hispanic", "asian", "native", "race", "sex",
     "estimated", "approximately", "approx", "about", "inches", "pounds", "cm", "kg", "lbs",
     "body", "description", "subject", "case", "number", "discovery", "location",
     "sighting", "last", "seen", "contact", "date", "remains", "charred", "skeletonized",
     "burned", "discovered", "debris", "underneath", "after", "before", "around", "above",
     "below", "where", "which", "there", "their", "them", "they", "this", "that", "from",
     "into", "been", "were", "also", "some", "many", "very", "small", "large", "water",
     "side", "both", "between", "area", "name", "time", "well", "worn", "long", "size",
     "brand", "color", "blue", "red", "green", "yellow", "brown", "gray"}

\* every raw word the model's descriptions are written with, in a fixed order
RawWords == <<"blue", "nike", "hoodie", "scar", "left", "arm", "forearm",
              "tattoo", "Scar", "Tattoo", "42", "on", "male",
              "ring", "watch", "boots", "jeans", "belt", "glasses", "necklace",
              "bracelet">>

\* str.lower on the model's words
Lower(w) == CASE w = "Scar" -> "scar"
              [] w = "Tattoo" -> "tattoo"
              [] OTHER -> w

\* str.isdigit on the model's words
IsDigit(w) == w \in {"42"}

\* the lowercase tokens, in a fixed order (stands for Python's set iteration order)
Vocabulary == <<"blue", "nike", "hoodie", "scar", "left", "arm", "forearm",
                "tattoo", "42", "on", "male",
                "ring", "watch", "boots", "jeans", "belt", "glasses", "necklace",
                "bracelet">>

Tokens == Range(Vocabulary)

\* CompositeMatcher._get_words
GetWords(text) ==
    IF ~TruthyText(text) THEN {}
    ELSE LET words == {Lower(w) : w \in Range(text.words)}
         IN  {w \in words : Len(w) > 2 /\ ~IsDigit(w)}

\* the words of a description with the stop words left in
DescWordsKeepStop(text) == GetWords(text)

\* the words of a description as load_stats, find_leads and _match_chunk use them
DescWords(text) == GetWords(text) \ stop_words

----------------------------------------------------------------------------
(* Corpus statistics: load_stats and calculate_specificity *)

\* a Counter over the tokens: a missing key counts 0
EmptyCounter == [w \in Tokens |-> 0]

\* the fields __init__ sets (lines 40-44)
NewMatcher == [uhr_total |-> 0, mp_total |-> 0,
               uhr_df |-> EmptyCounter, mp_df |-> EmptyCounter,
               idf_cache |-> << >>]

\* a pass that adds every row to the total, a row without description included
RECURSIVE CountDocsEveryRow(_, _, _, _)
CountDocsEveryRow(descs, i, total, df) ==
    IF i > Len(descs) THEN [total |-> total, df |-> df]
    ELSE LET words == DescWords(descs[i])
         IN  CountDocsEveryRow(descs, i + 1, total + 1,
                               [w \in Tokens |-> IF w \in words THEN df[w] + 1 ELSE df[w]])

\* one pass of a load_stats loop over the descriptions of a table, from row i on:
\* a row with a truthy description adds one to the total and one to the count
\* of each of its distinct non-stop words
RECURSIVE CountDocs(_, _, _, _)
CountDocs(descs, i, total, df) ==
    IF i > Len(descs) THEN [total |-> total, df |-> df]
    ELSE IF TruthyText(descs[i])
         THEN LET words == DescWords(descs[i])
              IN  CountDocs(descs, i + 1, total + 1,
                            [w \in Tokens |-> IF w \in words THEN df[w] + 1 ELSE df[w]])
         ELSE CountDocs(descs, i + 1, total, df)

Descriptions(rows) == [i \in 1..Len(rows) |-> rows[i].description]

\* a load_stats that starts its totals from 0 at each call and keeps adding
\* to the counters
LoadStatsResetTotals(self, d) ==
    LET u == CountDocs(Descriptions(d.uhr), 1, 0, self.uhr_df)
        m == CountDocs(Descriptions(d.mp), 1, 0, self.mp_df)
    IN  [self EXCEPT !.uhr_total = u.total, !.uhr_df = u.df,
                     !.mp_total = m.total, !.mp_df = m.df]

\* CompositeMatcher.load_stats: adds to the fields of self
LoadStats(self, d) ==
    LET u == CountDocs(Descriptions(d.uhr), 1, self.uhr_total, self.uhr_df)
        m == CountDocs(Descriptions(d.mp), 1, self.mp_total, self.mp_df)
    IN  [self EXCEPT !.uhr_total = u.total, !.uhr_df = u.df,
                     !.mp_total = m.total, !.mp_df = m.df]

\* round(1e6 * log10(n)) for n = 1..24
Log10Table == <<0, 301030, 477121, 602060, 698970, 778151, 845098, 903090,
                954243, 1000000, 1041393, 1079181, 1113943, 1146128, 1176091,
                1204120, 1230449, 1255273, 1278754, 1301030, 1322219, 1342423,
                1361728, 1380211>>

RECURSIVE Gcd(_, _)
Gcd(a, b) == IF b = 0 THEN a ELSE Gcd(b, a % b)

\* round(1e6 * log10(n)): the table for n <= 24, and log10(a * b) = log10(a) +
\* log10(b) for the larger n the model uses (products of 2s and 5s with a
\* tabulated factor)
RECURSIVE Log10(_)
Log10(n) ==
    IF n <= Len(Log10Table) THEN Log10Table[n]
    ELSE IF n % 10 = 0 THEN Log10Table[10] + Log10(n \div 10)
    ELSE IF n % 5 = 0 THEN Log10Table[5] + Log10(n \div 5)
    ELSE Log10Table[2] + Log10(n \div 2)

\* math.log10(total_docs / count) in millionths; the quotient is reduced first,
\* as the float division gives one value for one ratio
Log10Ratio(total_docs, count) ==
    LET g == Gcd(total_docs, count)
    IN  Log10(total_docs \div g) - Log10(count \div g)

\* the "extremely rare" constant 2.5
RareSpecificity == 2500000

\* the rarity fallback taken one count too early (count <= 1)
CalculateSpecificityOffByOne(word, df, total_docs) ==
    IF word \in stop_words THEN 0
    ELSE LET count == IF word \in DOMAIN df THEN df[word] ELSE 0
         IN  IF count <= 1 THEN RareSpecificity
             ELSE Log10Ratio(total_docs, count)

\* CompositeMatcher.calculate_specificity
CalculateSpecificity(word, df, total_docs) ==
    IF word \in stop_words THEN 0
    ELSE LET count == IF word \in DOMAIN df THEN df[word] ELSE 0
         IN  IF count <= 0 THEN RareSpecificity
             ELSE Log10Ratio(total_docs, count)

----------------------------------------------------------------------------
(* Pair scoring *)

\* the text-score divisor 35 and the annotation thresholds 2.2 and 1.5
TextNorm == 35
RareThreshold == 2200000
NormalThreshold == 1500000

\* an entry of a lead's shared_features: f"{word} (Rare)", word, f"{n} miles away"
WordFeature(kind, word) == [kind |-> kind, word |-> word, miles |-> 0]
MilesFeature(n) == [kind |-> "miles", word |-> "", miles |-> n]

\* the averaged specificity score_text_overlap stores in idf_cache (lines 98-100)
AveragedSpecificity(word, st) ==
    (CalculateSpecificity(word, st.uhr_df, st.uhr_total)
       + CalculateSpecificity(word, st.mp_df, st.mp_total)) \div 2

\* the loop of score_text_overlap over the common words ws (a sequence), from i on;
\* acc = [total, features, self]
RECURSIVE OverlapLoop(_, _, _)
OverlapLoop(ws, i, acc) ==
    IF i > Len(ws) THEN acc
    ELSE LET word == ws[i]
             self == IF word \in DOMAIN acc.self.idf_cache THEN acc.self
                     ELSE [acc.self EXCEPT !.idf_cache =
                               @ @@ (word :> AveragedSpecificity(word, acc.self))]
             specificity == self.idf_cache[word]
             feats == IF specificity > RareThreshold
                        THEN Append(acc.features, WordFeature("rare", word))
                      ELSE IF specificity > NormalThreshold
                        THEN Append(acc.features, WordFeature("word", word))
                      ELSE acc.features
         IN  OverlapLoop(ws, i + 1,
                         [total |-> acc.total + specificity, features |-> feats,
                          self |-> self])

\* text scoring over the union of the two word sets instead of the intersection
ScoreTextOverlapUnion(words1, words2, self) ==
    LET common == words1 \cup words2
        ws == SelectSeq(Vocabulary, LAMBDA w : w \in common)
    IN  IF common = {} THEN [score |-> 0, features |-> << >>, self |-> self]
        ELSE LET r == OverlapLoop(ws, 1, [total |-> 0, features |-> << >>, self |-> self])
             IN  [score |-> Min(ONE, r.total \div TextNorm),
                  features |-> r.features, self |-> r.self]

\* text scoring that also counts the common words into the unidentified table
ScoreTextOverlapCounting(words1, words2, self) ==
    LET common == words1 \cap words2
        ws == SelectSeq(Vocabulary, LAMBDA w : w \in common)
        counted == [self EXCEPT !.uhr_df =
                       [w \in Tokens |-> IF w \in common THEN @[w] + 1 ELSE @[w]]]
    IN  IF common = {} THEN [score |-> 0, features |-> << >>, self |-> self]
        ELSE LET r == OverlapLoop(ws, 1,
                                  [total |-> 0, features |-> << >>, self |-> counted])
             IN  [score |-> Min(ONE, r.total \div TextNorm),
                  features |-> r.features, self |-> r.self]

\* CompositeMatcher.score_text_overlap: the score, the features, and self as the
\* call leaves it
ScoreTextOverlap(words1, words2, self) ==
    LET common == words1 \cap words2
        ws == SelectSeq(Vocabulary, LAMBDA w : w \in common)
    IN  IF common = {} THEN [score |-> 0, features |-> << >>, self |-> self]
        ELSE LET r == OverlapLoop(ws, 1, [total |-> 0, features |-> << >>, self |-> self])
             IN  [score |-> Min(ONE, r.total \div TextNorm),
                  features |-> r.features, self |-> r.self]

\* calculate_phenotypic_score without the doubling of line 117
CalculatePhenotypicScoreHalf(u_race, m_race) ==
    IF TruthyStr(u_race) /\ TruthyStr(m_race) /\ u_race = m_race
    THEN ONE \div 2 ELSE 0

\* CompositeMatcher.calculate_phenotypic_score
CalculatePhenotypicScore(u_race, m_race) ==
    LET score == IF TruthyStr(u_race) /\ TruthyStr(m_race) /\ u_race = m_race
                 THEN ONE \div 2 ELSE 0
    IN  Min(ONE, score * 2)

\* calculate_bio_multiplier that is content with one complete sample on each
\* side, whatever its kind
CalculateBioMultiplierAnyKind(u_dna, u_dental, m_dna, m_dental) ==
    IF /\ "Complete" \in {u_dna, u_dental}
       /\ "Complete" \in {m_dna, m_dental}
    THEN 15 ELSE 10

\* CompositeMatcher.calculate_bio_multiplier, in tenths
CalculateBioMultiplier(u_dna, u_dental, m_dna, m_dental) ==
    LET dna_ready == u_dna = "Complete" /\ m_dna = "Complete"
        dental_ready == u_dental = "Complete" /\ m_dental = "Complete"
    IN  IF dna_ready \/ dental_ready THEN 15 ELSE 10

\* haversine_distance in thousandths of a mile, at the coordinates of the model
\* (R = 3958.8; values of the formula at these points)
HaversineDistance(lat1, lon1, lat2, lon2) ==
    IF NULL \in {lat1, lon1, lat2, lon2} THEN NULL
    ELSE LET dlat == IF lat2 >= lat1 THEN lat2 - lat1 ELSE lat1 - lat2
             dlon == IF lon2 >= lon1 THEN lon2 - lon1 ELSE lon1 - lon2
             lats == {lat1, lat2}
         IN  CASE dlat = 0 /\ dlon = 0 -> 0
               [] lats = {40, 41} /\ dlon = 1 -> 86799
               [] lats = {40, 47} /\ dlon = 5 -> 544440
               [] lats = {40, 49} /\ dlon = 0 -> 621846
               [] lats = {40} /\ dlon = 9 -> 476159
               [] lats = {40} /\ dlon = 8 -> 423291
               [] lats = {40, 48} /\ dlon = 0 -> 552753
               [] lats = {40, 48} /\ dlon = 8 -> 680099

\* round(1e6 * math.exp(-d / 300)) at the distances of the model (d in
\* thousandths of a mile; k = 300)
GeoTable ==
    (0 :> ONE) @@ (1 :> 999997) @@ (1000 :> 996672) @@ (25000 :> 920044)
    @@ (50000 :> 846482) @@ (86799 :> 748765) @@ (100000 :> 716531)
    @@ (300000 :> 367879) @@ (423291 :> 243907) @@ (476159 :> 204498)
    @@ (544440 :> 162870) @@ (552753 :> 158419) @@ (621846 :> 125830)
    @@ (680099 :> 103623) @@ (1000000 :> 35674) @@ (2000000 :> 1273)

ExpDecay(distance_miles) == GeoTable[distance_miles]

\* an unknown distance scored as the farthest one
CalculateGeoScoreUnknownFar(distance_miles) ==
    IF distance_miles = NULL THEN 0
    ELSE ExpDecay(distance_miles)

\* every distance under 50 miles scored 1.0
CalculateGeoScorePlateau(distance_miles) ==
    IF distance_miles = NULL THEN ONE \div 2
    ELSE IF distance_miles < 50000 THEN ONE
    ELSE ExpDecay(distance_miles)

\* calculate_geo_score: 0.5 for an unknown distance, else exp(-d/300)
CalculateGeoScore(distance_miles) ==
    IF distance_miles = NULL THEN ONE \div 2
    ELSE ExpDecay(distance_miles)

\* the combination without the clamp to 1.0
CombineUnclamped(text_score, geo_score, pheno_score, multiplier) ==
    LET composite_score == (text_score * 4 + geo_score * 3 + pheno_score * 3) \div 10
    IN  (composite_score * multiplier) \div 10

\* lines 238-242: composite score, bio multiplier, clamp
Combine(text_score, geo_score, pheno_score, multiplier) ==
    LET composite_score == (text_score * 4 + geo_score * 3 + pheno_score * 3) \div 10
    IN  Min(ONE, (composite_score * multiplier) \div 10)

\* the final score cut to 3 decimals instead of rounded
Round3Down(x) == x \div 1000

\* round(final_score, 3): thousandths, ties to even
Round3(x) ==
    LET q == x \div 1000
        r == x % 1000
    IN  IF r < 500 THEN q
        ELSE IF r > 500 THEN q + 1
        ELSE IF q % 2 = 0 THEN q ELSE q + 1

\* int(dist): whole miles
IntMiles(dist) == dist \div 1000

\* text[:200] on a description: the words that fit in 200 characters
PreviewChars == 200
RECURSIVE TakeChars(_, _, _)
TakeChars(ws, i, room) ==
    IF i > Len(ws) \/ Len(ws[i]) > room THEN SubSeq(ws, 1, i - 1)
    ELSE TakeChars(ws, i + 1, room - Len(ws[i]) - 1)
Preview(text) == Text(TakeChars(text.words, 1, PreviewChars))

----------------------------------------------------------------------------
(* The records the database of the model is drawn from *)

\* rows of unidentified_cases
UhrCatalogue == <<
    [case_number |-> "U1", estimated_sex |-> "Female",
     estimated_age_min |-> 20, estimated_age_max |-> 30, discovery_date |-> 20200101,
     description |-> Text(<<"blue", "nike", "hoodie", "scar", "left", "arm">>),
     discovery_lat |-> NULL, discovery_lon |-> NULL, race |-> NONE,
     dna_status |-> NONE, dental_status |-> NONE],
    [case_number |-> "U2", estimated_sex |-> "Male",
     estimated_age_min |-> NULL, estimated_age_max |-> NULL, discovery_date |-> NULL,
     description |-> Text(<<"Tattoo", "male", "42">>),
     discovery_lat |-> 40, discovery_lon |-> -75, race |-> "White",
     dna_status |-> "Complete", dental_status |-> NONE],
    [case_number |-> "U3", estimated_sex |-> "Unknown",
     estimated_age_min |-> 30, estimated_age_max |-> 40, discovery_date |-> 20190101,
     description |-> Text(<<"Scar", "tattoo", "42", "on", "left", "hoodie">>),
     discovery_lat |-> 40, discovery_lon |-> -75, race |-> "Black",
     dna_status |-> NONE, dental_status |-> "Complete"],
    [case_number |-> "U4", estimated_sex |-> "Female",
     estimated_age_min |-> 20, estimated_age_max |-> NULL, discovery_date |-> 20200101,
     description |-> NullText,
     discovery_lat |-> 40, discovery_lon |-> NULL, race |-> "White",
     dna_status |-> "Complete", dental_status |-> "Complete"] >>

\* rows of missing_persons
MpCatalogue == <<
    [file_number |-> "M1", name |-> "Jane Roe", age_at_disappearance |-> 25,
     last_seen_date |-> 20190601,
     description |-> Text(<<"blue", "nike", "hoodie", "scar", "left", "forearm">>),
     last_seen_lat |-> NULL, last_seen_lon |-> NULL, sex |-> "Female", race |-> NONE,
     dna_status |-> NONE, dental_status |-> NONE],
    [file_number |-> "M2", name |-> "John Doe", age_at_disappearance |-> 40,
     last_seen_date |-> 20210101,
     description |-> Text(<<"scar", "tattoo">>),
     last_seen_lat |-> 40, last_seen_lon |-> -75, sex |-> "Male", race |-> "White",
     dna_status |-> "Complete", dental_status |-> NONE],
    [file_number |-> "M3", name |-> NONE, age_at_disappearance |-> NULL,
     last_seen_date |-> NULL,
     description |-> NullText,
     last_seen_lat |-> 41, last_seen_lon |-> -74, sex |-> NONE, race |-> "Black",
     dna_status |-> NONE, dental_status |-> "Complete"],
    [file_number |-> "M4", name |-> "Ann Poe", age_at_disappearance |-> 33,
     last_seen_date |-> 20180101,
     description |-> Text(<< >>),
     last_seen_lat |-> 47, last_seen_lon |-> -70, sex |-> "Female", race |-> "Black",
     dna_status |-> "Complete", dental_status |-> "Complete"] >>

\* the rows of a catalogue at the positions S, in catalogue order
RowsOf(catalogue, S) ==
    LET idx == SelectSeq([i \in 1..Len(catalogue) |-> i], LAMBDA i : i \in S)
    IN  [k \in 1..Len(idx) |-> catalogue[idx[k]]]

----------------------------------------------------------------------------
(* Candidate generation: the SQL query of _match_chunk and the age filter *)

\* the sentinel '9999-12-31'
MaxDate == 99991231

\* line 197: a date that is None or '' (written 0) gives the sentinel
DateLimit(u_date) == IF TruthyNum(u_date) THEN u_date ELSE MaxDate

\* the comparison of the timeline filter turned around
TimelineOkReversed(u, m) ==
    m.last_seen_date = NULL \/ m.last_seen_date >= DateLimit(u.u_date)

\* WHERE (last_seen_date IS NULL OR last_seen_date <= ?)
TimelineOk(u, m) ==
    m.last_seen_date = NULL \/ m.last_seen_date <= DateLimit(u.u_date)

\* a sex filter that keeps only the rows of the same sex
SexOkSameOnly(u, m) ==
    IF TruthyStr(u.u_sex) /\ u.u_sex \notin {"Uncertain", "Unknown"}
    THEN m.sex = u.u_sex
    ELSE TRUE

\* lines 209-211
SexOk(u, m) ==
    IF TruthyStr(u.u_sex) /\ u.u_sex \notin {"Uncertain", "Unknown"}
    THEN m.sex = NONE \/ m.sex \in {"Unknown", "Uncertain", u.u_sex}
    ELSE TRUE

\* the bounding box half-width, in degrees
GeoBox == 8

\* a bounding box that tests the latitude only
GeoOkLatitudeOnly(u, m) ==
    IF u.u_lat # NULL /\ u.u_lon # NULL
    THEN m.last_seen_lat = NULL
         \/ (/\ m.last_seen_lat # NULL /\ m.last_seen_lon # NULL
             /\ u.u_lat - GeoBox <= m.last_seen_lat /\ m.last_seen_lat <= u.u_lat + GeoBox)
    ELSE TRUE

\* lines 213-215; x BETWEEN a AND b is not true for a NULL x
GeoOk(u, m) ==
    IF u.u_lat # NULL /\ u.u_lon # NULL
    THEN m.last_seen_lat = NULL
         \/ (/\ m.last_seen_lat # NULL /\ m.last_seen_lon # NULL
             /\ u.u_lat - GeoBox <= m.last_seen_lat /\ m.last_seen_lat <= u.u_lat + GeoBox
             /\ u.u_lon - GeoBox <= m.last_seen_lon /\ m.last_seen_lon <= u.u_lon + GeoBox)
    ELSE TRUE

\* cursor.execute(query, params); cursor.fetchall(): the rows in scan order
QueryCandidates(u, mp_rows) ==
    SelectSeq(mp_rows, LAMBDA m : TimelineOk(u, m) /\ SexOk(u, m) /\ GeoOk(u, m))

\* the age tolerance, below and above
AgeTolerance == 10

\* line 223: TRUE when the row is skipped
AgeExcluded(u, m) ==
    LET m_age == m.age_at_disappearance
    IN  /\ TruthyNum(u.u_age_min)
        /\ TruthyNum(m_age)
        /\ \/ m_age < u.u_age_min - AgeTolerance
           \/ (TruthyNum(u.u_age_max) /\ m_age > u.u_age_max + AgeTolerance)

\* lines 147-154: one entry of processed_uhr
ProcessUhr(r) ==
    [u_num |-> r.case_number, u_sex |-> r.estimated_sex,
     u_age_min |-> r.estimated_age_min, u_age_max |-> r.estimated_age_max,
     u_date |-> r.discovery_date, u_desc |-> r.description,
     u_words |-> DescWords(r.description),
     u_lat |-> r.discovery_lat, u_lon |-> r.discovery_lon,
     u_race |-> r.race, u_dna |-> r.dna_status, u_dental |-> r.dental_status]

\* lines 226-242 for one candidate row: the sub-scores, the final score, and self
\* as the text scoring leaves it
ScorePair(u, m, self) ==
    LET t == ScoreTextOverlap(u.u_words, DescWords(m.description), self)
        dist == HaversineDistance(u.u_lat, u.u_lon, m.last_seen_lat, m.last_seen_lon)
        geo_score == CalculateGeoScore(dist)
        pheno_score == CalculatePhenotypicScore(u.u_race, m.race)
        multiplier == CalculateBioMultiplier(u.u_dna, u.u_dental,
                                             m.dna_status, m.dental_status)
    IN  [text_score |-> t.score, features |-> t.features, self |-> t.self,
         dist |-> dist,
         final_score |-> Combine(t.score, geo_score, pheno_score, multiplier)]

\* line 244
Qualifies(final_score, min_score) == final_score >= min_score

\* lines 245-257: the lead appended for a qualifying pair; u_desc[:200] and
\* m_desc[:200] raise TypeError on None
LeadRaises(u, m) == u.u_desc.null \/ m.description.null

MakeLead(u, m, sp) ==
    [uhr_case |-> u.u_num, mp_file |-> m.file_number, mp_name |-> m.name,
     score |-> Round3(sp.final_score),
     shared_features |-> IF sp.dist # NULL
                         THEN Append(sp.features, MilesFeature(IntMiles(sp.dist)))
                         ELSE sp.features,
     uhr_desc_preview |-> Preview(u.u_desc),
     mp_desc_preview |-> Preview(m.description)]

\* the inner loop of _match_chunk (lines 219-257) over the fetched rows, from i on;
\* acc = [raised, results, self]
RECURSIVE ScoreRows(_, _, _, _, _)
ScoreRows(u, rows, i, min_score, acc) ==
    IF acc.raised \/ i > Len(rows) THEN acc
    ELSE LET m == rows[i]
         IN  IF AgeExcluded(u, m) THEN ScoreRows(u, rows, i + 1, min_score, acc)
             ELSE LET sp == ScorePair(u, m, acc.self)
                  IN  IF ~Qualifies(sp.final_score, min_score)
                      THEN ScoreRows(u, rows, i + 1, min_score,
                                     [acc EXCEPT !.self = sp.self])
                      ELSE IF LeadRaises(u, m)
                      THEN [acc EXCEPT !.raised = TRUE, !.self = sp.self]
                      ELSE ScoreRows(u, rows, i + 1, min_score,
                                     [acc EXCEPT !.self = sp.self,
                                                 !.results = Append(@, MakeLead(u, m, sp))])

\* an iteration of the outer loop that puts the leads of its record in front
\* of the leads found so far
MatchRecordInFront(u, mp_rows, self, min_score, results) ==
    LET r == ScoreRows(u, QueryCandidates(u, mp_rows), 1, min_score,
                       [raised |-> FALSE, results |-> << >>, self |-> self])
    IN  [r EXCEPT !.results = @ \o results]

\* one iteration of the outer loop of _match_chunk (lines 196-257) for record u
MatchRecord(u, mp_rows, self, min_score, results) ==
    ScoreRows(u, QueryCandidates(u, mp_rows), 1, min_score,
              [raised |-> FALSE, results |-> results, self |-> self])

\* _match_chunk run to its end on a list of records, from record i on:
\* [raised, results, self]
RECURSIVE MatchChunkFrom(_, _, _, _, _)
MatchChunkFrom(uhr_subset, i, mp_rows, min_score, acc) ==
    IF acc.raised \/ i > Len(uhr_subset) THEN acc
    ELSE MatchChunkFrom(uhr_subset, i + 1, mp_rows, min_score,
                        MatchRecord(uhr_subset[i], mp_rows, acc.self, min_score,
                                    acc.results))

----------------------------------------------------------------------------
(* find_leads: chunking, merge, ranking *)

\* lines 157-161: the stats dict; its values are the objects self holds
StatsOf(self) ==
    [uhr_df |-> self.uhr_df, mp_df |-> self.mp_df,
     uhr_total |-> self.uhr_total, mp_total |-> self.mp_total,
     idf_cache |-> self.idf_cache]

\* lines 185-189: the invocation takes its five fields from the stats it was handed
InstallStats(st) ==
    [uhr_total |-> st.uhr_total, mp_total |-> st.mp_total,
     uhr_df |-> st.uhr_df, mp_df |-> st.mp_df, idf_cache |-> st.idf_cache]

\* line 165
ChunkSize(n, nw) == Max(1, n \div nw)

\* one chunk per worker, of the floored size: the records past the last chunk
\* are never submitted
ChunksPerWorker(processed_uhr, nw) ==
    LET n == Len(processed_uhr)
        chunk_size == ChunkSize(n, nw)
        count == Min(nw, (n + chunk_size - 1) \div chunk_size)
    IN  [k \in 1..count |->
            SubSeq(processed_uhr, (k - 1) * chunk_size + 1, Min(n, k * chunk_size))]

\* chunks that each reach one record into the next
ChunksOverlapping(processed_uhr, nw) ==
    LET n == Len(processed_uhr)
        chunk_size == ChunkSize(n, nw)
        count == (n + chunk_size - 1) \div chunk_size
    IN  [k \in 1..count |->
            SubSeq(processed_uhr, (k - 1) * chunk_size + 1,
                   Min(n, k * chunk_size + 1))]

\* line 166: [processed_uhr[i:i + chunk_size] for i in range(0, n, chunk_size)]
Chunks(processed_uhr, nw) ==
    LET n == Len(processed_uhr)
        chunk_size == ChunkSize(n, nw)
        count == (n + chunk_size - 1) \div chunk_size
    IN  [k \in 1..count |->
            SubSeq(processed_uhr, (k - 1) * chunk_size + 1, Min(n, k * chunk_size))]

\* list.sort(key=score, reverse=True): stable, descending; insertion of lead x
\* behind every entry whose score is not smaller
RECURSIVE InsertLead(_, _)
InsertLead(sorted, x) ==
    IF sorted = << >> THEN <<x>>
    ELSE IF Head(sorted).score >= x.score
         THEN <<Head(sorted)>> \o InsertLead(Tail(sorted), x)
         ELSE <<x>> \o sorted

RECURSIVE SortLeads(_)
SortLeads(leads) ==
    IF leads = << >> THEN << >>
    ELSE InsertLead(SortLeads(SubSeq(leads, 1, Len(leads) - 1)), leads[Len(leads)])

\* the slice taken from the tail: all_leads[-limit:]
TruncateTail(leads, limit) ==
    IF limit = 0 THEN leads
    ELSE IF limit > 0 THEN SubSeq(leads, Max(1, Len(leads) - limit + 1), Len(leads))
    ELSE SubSeq(leads, Min(Len(leads), -limit) + 1, Len(leads))

\* all_leads[:limit], Python slicing (a negative limit counts from the end)
Truncate(leads, limit) ==
    IF limit >= 0 THEN SubSeq(leads, 1, Min(limit, Len(leads)))
    ELSE SubSeq(leads, 1, Max(0, Len(leads) + limit))

----------------------------------------------------------------------------
(* The state machine *)

\* arguments tried for find_leads: min_score (millionths; 0.35 is the default),
\* limit (200 is the default), parallel
DefaultMinScore == 350000
DefaultLimit == 200
MinScores == {0, DefaultMinScore}
Limits == {0, 1, DefaultLimit}

NoArgs == [min_score |-> 0, limit |-> 0, parallel |-> FALSE]
NoOutcome == [status |-> "none", leads |-> << >>]
NoProbe == [text |-> 0, geo |-> 0, pheno |-> 0, multiplier |-> 10,
            final |-> 0, score |-> 0]

\* the state after CompositeMatcher(db_path), over a database of catalogue rows
InitRun ==
    /\ \E U \in SUBSET (1..Len(UhrCatalogue)), M \in SUBSET (1..Len(MpCatalogue)) :
          /\ Cardinality(U) <= MaxUhr
          /\ Cardinality(M) <= MaxMp
          /\ db = [uhr |-> RowsOf(UhrCatalogue, U), mp |-> RowsOf(MpCatalogue, M)]
    /\ matcher = NewMatcher
    /\ num_workers = 0
    /\ pc = "idle"
    /\ args = NoArgs
    /\ stats = StatsOf(NewMatcher)
    /\ chunks = << >>
    /\ wk = << >>
    /\ collected = 0
    /\ all_leads = << >>
    /\ outcome = NoOutcome
    /\ calls = 0
    /\ probe = NoProbe
    /\ conns = << >>

\* sub-scores in [0, 1] on a grid, for the score combination taken alone
Grid == {(k * ONE) \div GridN : k \in 0..GridN}

InitProbe ==
    /\ db = [uhr |-> << >>, mp |-> << >>]
    /\ matcher = NewMatcher
    /\ num_workers = 0
    /\ pc = "probe"
    /\ args = NoArgs
    /\ stats = StatsOf(NewMatcher)
    /\ chunks = << >>
    /\ wk = << >>
    /\ collected = 0
    /\ all_leads = << >>
    /\ outcome = NoOutcome
    /\ calls = 0
    /\ conns = << >>
    /\ \E t \in Grid, g \in Grid, ph \in Grid, mult \in {10, 15} :
          probe = [text |-> t, geo |-> g, pheno |-> ph, multiplier |-> mult,
                   final |-> 0, score |-> 0]

Init == InitRun \/ InitProbe

\* lines 238-242 and 253 applied to the sub-scores of the probe
ApplyCombine ==
    /\ pc = "probe"
    /\ LET final_score == Combine(probe.text, probe.geo, probe.pheno, probe.multiplier)
       IN  probe' = [probe EXCEPT !.final = final_score, !.score = Round3(final_score)]
    /\ pc' = "probed"
    /\ UNCHANGED <<db, matcher, num_workers, args, stats, chunks, wk, collected,
                   all_leads, outcome, calls, conns>>

\* sqlite3.connect(self.db_path) by an invocation (0: find_leads itself, i: the
\* _match_chunk working on chunk i): a new connection, named by its place in
\* the opening order; used_by collects the invocations that query through it
OpenConn(cs, owner) ==
    Append(cs, [owner |-> owner, open |-> TRUE, used_by |-> {}])

\* cursor.execute by an invocation, on a cursor of connection c
Execute(cs, c, by) == [cs EXCEPT ![c].used_by = @ \cup {by}]

\* conn.close()
CloseConn(cs, c) == [cs EXCEPT ![c].open = FALSE]

\* an invocation of _match_chunk that closes its connection only when it
\* leaves without an exception
ChunkExitNoFinally(cs, c, raised) == IF raised THEN cs ELSE CloseConn(cs, c)

\* lines 258-259: finally: conn.close(), on either way out of _match_chunk
ChunkExit(cs, c, raised) == CloseConn(cs, c)

\* find_leads up to the dispatch of the work (lines 132-171, 175): load_stats,
\* the unidentified rows, processed_uhr, stats, and the chunks with the stats
\* each invocation is handed; nw is os.cpu_count() or 4, read in the parallel path
FindLeadsStart(min_score, limit, parallel, nw) ==
    /\ pc \in {"idle", "done"}
    /\ calls < MaxCalls
    /\ IF parallel THEN nw >= 1 ELSE nw = 0
    /\ LET self == LoadStats(matcher, db)
           processed_uhr == [i \in 1..Len(db.uhr) |-> ProcessUhr(db.uhr[i])]
           cs == IF parallel THEN Chunks(processed_uhr, nw)
                 ELSE <<processed_uhr>>
       IN  /\ matcher' = self
           /\ stats' = StatsOf(self)
           /\ chunks' = cs
           /\ wk' = [i \in 1..Len(cs) |->
                       [status |-> "queued", pos |-> 1, results |-> << >>,
                        self |-> InstallStats(StatsOf(self)), conn |-> 0]]
    /\ conns' = Execute(OpenConn(<< >>, 0), 1, 0)
    /\ args' = [min_score |-> min_score, limit |-> limit, parallel |-> parallel]
    /\ num_workers' = nw
    /\ collected' = 0
    /\ all_leads' = << >>
    /\ outcome' = NoOutcome
    /\ pc' = "running"
    /\ calls' = calls + 1
    /\ UNCHANGED <<db, probe>>

Running(i) == wk[i].status = "running"
Terminal(i) == wk[i].status \in {"done", "failed"}

\* a queued work item may begin: the pool hands out work in submission order,
\* to one of its num_workers processes; the sequential call runs at once
MayBegin(i) ==
    /\ \A j \in 1..(i - 1) : wk[j].status # "queued"
    /\ args.parallel => Cardinality({j \in 1..Len(wk) : Running(j)}) < num_workers

\* an invocation of _match_chunk advances by one record of its chunk (lines
\* 185-195 on its first step, which open its connection, then lines 196-257);
\* a TypeError ends the invocation (finally: conn.close()).  In the sequential path the invocation
\* runs on the caller's instance, whose idf_cache is the object in stats.
WorkerStep(i) ==
    /\ pc \in {"running", "shutdown"}
    /\ i \in 1..Len(wk)
    /\ Running(i) \/ (wk[i].status = "queued" /\ MayBegin(i))
    /\ LET begun == wk[i].status = "queued"
           opened == IF begun THEN OpenConn(conns, i) ELSE conns
           c == IF begun THEN Len(opened) ELSE wk[i].conn
       IN  IF Len(chunks[i]) = 0
           THEN /\ wk' = [wk EXCEPT ![i].status = "done", ![i].conn = c]
                /\ conns' = ChunkExit(opened, c, FALSE)
                /\ UNCHANGED <<matcher, stats>>
           ELSE LET r == MatchRecord(chunks[i][wk[i].pos], db.mp, wk[i].self,
                                     args.min_score, wk[i].results)
                    last == wk[i].pos = Len(chunks[i])
                IN  /\ wk' = [wk EXCEPT ![i] =
                                IF r.raised
                                THEN [status |-> "failed", pos |-> @.pos,
                                      results |-> << >>, self |-> r.self,
                                      conn |-> c]
                                ELSE [status |-> IF last THEN "done" ELSE "running",
                                      pos |-> @.pos + 1, results |-> r.results,
                                      self |-> r.self, conn |-> c]]
                    /\ conns' = IF r.raised \/ last
                                THEN ChunkExit(Execute(opened, c, i), c, r.raised)
                                ELSE Execute(opened, c, i)
                    /\ IF args.parallel
                       THEN UNCHANGED <<matcher, stats>>
                       ELSE /\ matcher' = r.self
                            /\ stats' = StatsOf(r.self)
    /\ UNCHANGED <<db, num_workers, pc, args, chunks, collected, all_leads,
                   outcome, calls, probe>>

\* a coordinator that skips a failed future and merges the rest
CollectSkipFailed ==
    /\ pc = "running"
    /\ args.parallel
    /\ collected < Len(wk)
    /\ Terminal(collected + 1)
    /\ all_leads' = IF wk[collected + 1].status = "done"
                    THEN all_leads \o wk[collected + 1].results ELSE all_leads
    /\ collected' = collected + 1
    /\ UNCHANGED <<db, matcher, num_workers, pc, args, stats, chunks, wk, outcome,
                   calls, probe, conns>>

\* a coordinator that puts each result it takes in front of the merged list
CollectInFront ==
    /\ pc = "running"
    /\ args.parallel
    /\ collected < Len(wk)
    /\ Terminal(collected + 1)
    /\ IF wk[collected + 1].status = "done"
       THEN /\ all_leads' = wk[collected + 1].results \o all_leads
            /\ collected' = collected + 1
            /\ pc' = pc
       ELSE /\ pc' = "shutdown"
            /\ UNCHANGED <<all_leads, collected>>
    /\ UNCHANGED <<db, matcher, num_workers, args, stats, chunks, wk, outcome,
                   calls, probe, conns>>

\* lines 172-173: the coordinator takes the next future's result, in submission
\* order; a failed future raises out of the with block, whose exit waits for
\* the pool (shutdown(wait=True))
Collect ==
    /\ pc = "running"
    /\ args.parallel
    /\ collected < Len(wk)
    /\ Terminal(collected + 1)
    /\ IF wk[collected + 1].status = "done"
       THEN /\ all_leads' = all_leads \o wk[collected + 1].results
            /\ collected' = collected + 1
            /\ pc' = pc
       ELSE /\ pc' = "shutdown"
            /\ UNCHANGED <<all_leads, collected>>
    /\ UNCHANGED <<db, matcher, num_workers, args, stats, chunks, wk, outcome,
                   calls, probe, conns>>

\* lines 175-180: every result is in; sort, truncate, return (finally:
\* conn.close())
FindLeadsReturn ==
    /\ pc = "running"
    /\ IF args.parallel THEN collected = Len(wk)
       ELSE wk[1].status = "done"
    /\ LET merged == IF args.parallel THEN all_leads ELSE wk[1].results
           sorted == SortLeads(merged)
       IN  /\ all_leads' = sorted
           /\ outcome' = [status |-> "returned", leads |-> Truncate(sorted, args.limit)]
    /\ pc' = "done"
    /\ conns' = CloseConn(conns, 1)
    /\ UNCHANGED <<db, matcher, num_workers, args, stats, chunks, wk, collected,
                   calls, probe>>

\* the exception leaves find_leads: in the sequential path from _match_chunk,
\* in the parallel path once the pool has shut down
FindLeadsRaise ==
    /\ IF args.parallel
       THEN pc = "shutdown" /\ \A i \in 1..Len(wk) : Terminal(i)
       ELSE pc = "running" /\ wk[1].status = "failed"
    /\ outcome' = [status |-> "raised", leads |-> << >>]
    /\ pc' = "done"
    /\ conns' = CloseConn(conns, 1)
    /\ UNCHANGED <<db, matcher, num_workers, args, stats, chunks, wk, collected,
                   all_leads, calls, probe>>

\* between two calls the database changes: a row is inserted or deleted
UpdateDb ==
    /\ pc = "done"
    /\ calls < MaxCalls
    /\ \/ \E r \in Range(UhrCatalogue) :
             /\ r \notin Range(db.uhr)
             /\ Len(db.uhr) < MaxUhr
             /\ db' = [db EXCEPT !.uhr = Append(@, r)]
       \/ \E r \in Range(MpCatalogue) :
             /\ r \notin Range(db.mp)
             /\ Len(db.mp) < MaxMp
             /\ db' = [db EXCEPT !.mp = Append(@, r)]
       \/ \E r \in Range(db.uhr) :
             db' = [db EXCEPT !.uhr = SelectSeq(@, LAMBDA x : x # r)]
       \/ \E r \in Range(db.mp) :
             db' = [db EXCEPT !.mp = SelectSeq(@, LAMBDA x : x # r)]
    /\ pc' = "idle"
    /\ args' = NoArgs
    /\ chunks' = << >>
    /\ wk' = << >>
    /\ collected' = 0
    /\ all_leads' = << >>
    /\ outcome' = NoOutcome
    /\ num_workers' = 0
    /\ conns' = << >>
    /\ UNCHANGED <<matcher, stats, calls, probe>>

Next ==
    \/ \E ms \in MinScores, l \in Limits, p \in BOOLEAN, nw \in 0..MaxWorkers :
          FindLeadsStart(ms, l, p, nw)
    \/ \E i \in DOMAIN wk : WorkerStep(i)
    \/ Collect
    \/ FindLeadsReturn
    \/ FindLeadsRaise
    \/ ApplyCombine

\* calls of find_leads on one instance over an unchanging database
Spec == Init /\ [][Next]_vars

\* the same, with the database changing between the calls
NextDb == Next \/ UpdateDb

SpecDb == Init /\ [][NextDb]_vars

----------------------------------------------------------------------------
(* Databases of one unidentified record and one missing person, for the filters *)

BaseUhr ==
    [case_number |-> "U0", estimated_sex |-> "Female",
     estimated_age_min |-> 30, estimated_age_max |-> 40, discovery_date |-> 20200101,
     description |-> Text(<<"scar", "tattoo">>),
     discovery_lat |-> 40, discovery_lon |-> -75, race |-> "White",
     dna_status |-> NONE, dental_status |-> NONE]

BaseMp ==
    [file_number |-> "M0", name |-> "Sam Low", age_at_disappearance |-> 35,
     last_seen_date |-> 20190601,
     description |-> Text(<<"scar", "ring">>),
     last_seen_lat |-> 40, last_seen_lon |-> -75, sex |-> "Female", race |-> "White",
     dna_status |-> NONE, dental_status |-> NONE]

PairDb(u, m) == [uhr |-> <<u>>, mp |-> <<m>>]

\* ages: unknown, 0, and ages around the window of a 30-40 range
AgePairs ==
    {PairDb([BaseUhr EXCEPT !.estimated_age_min = a, !.estimated_age_max = b],
            [BaseMp EXCEPT !.age_at_disappearance = c]) :
        a \in {NULL, 0, 30}, b \in {NULL, 40}, c \in {NULL, 0, 19, 20, 35, 50, 51}}

\* sexes: NULL, the two unknown markers, and two known sexes
SexValues == {NONE, "Unknown", "Uncertain", "Female", "Male"}
SexPairs ==
    {PairDb([BaseUhr EXCEPT !.estimated_sex = a], [BaseMp EXCEPT !.sex = b]) :
        a \in SexValues, b \in SexValues}

\* coordinates: unknown in part or whole, the same point, points inside the box,
\* on its corner, and just outside it in latitude or in longitude
GeoPairs ==
    {PairDb([BaseUhr EXCEPT !.discovery_lat = a[1], !.discovery_lon = a[2]],
            [BaseMp EXCEPT !.last_seen_lat = b[1], !.last_seen_lon = b[2]]) :
        a \in {<<NULL, NULL>>, <<40, NULL>>, <<NULL, -75>>, <<40, -75>>},
        b \in {<<NULL, NULL>>, <<40, NULL>>, <<NULL, -75>>, <<40, -75>>, <<41, -74>>,
               <<48, -67>>, <<49, -75>>, <<40, -66>>}}

\* a missing description on one side
DescPairs ==
    {PairDb([BaseUhr EXCEPT !.description = NullText], BaseMp),
     PairDb(BaseUhr, [BaseMp EXCEPT !.description = NullText])}

InitPairs ==
    /\ db \in AgePairs \cup SexPairs \cup GeoPairs \cup DescPairs
    /\ matcher = NewMatcher
    /\ num_workers = 0
    /\ pc = "idle"
    /\ args = NoArgs
    /\ stats = StatsOf(NewMatcher)
    /\ chunks = << >>
    /\ wk = << >>
    /\ collected = 0
    /\ all_leads = << >>
    /\ outcome = NoOutcome
    /\ calls = 0
    /\ probe = NoProbe
    /\ conns = << >>

\* calls of find_leads over the one-pair databases
SpecPairs == (InitPairs \/ InitProbe) /\ [][Next]_vars

----------------------------------------------------------------------------
(* Thresholds between two thousandths, over the one-pair databases *)

\* min_score values 0.331, 0.33105, 0.5246 and 0.525
FineMinScores == {331000, 331050, 524600, 525000}

InitFine ==
    /\ db \in GeoPairs \cup DescPairs
    /\ matcher = NewMatcher
    /\ num_workers = 0
    /\ pc = "idle"
    /\ args = NoArgs
    /\ stats = StatsOf(NewMatcher)
    /\ chunks = << >>
    /\ wk = << >>
    /\ collected = 0
    /\ all_leads = << >>
    /\ outcome = NoOutcome
    /\ calls = 0
    /\ probe = NoProbe
    /\ conns = << >>

NextFine ==
    \/ \E ms \in FineMinScores, p \in BOOLEAN, nw \in 0..MaxWorkers :
          FindLeadsStart(ms, DefaultLimit, p, nw)
    \/ \E i \in DOMAIN wk : WorkerStep(i)
    \/ Collect
    \/ FindLeadsReturn
    \/ FindLeadsRaise

\* calls of find_leads with such thresholds
SpecFine == InitFine /\ [][NextFine]_vars

----------------------------------------------------------------------------
(* A batch of five unidentified records, cut into chunks of unequal length *)

\* three rows of the catalogue, and two further cases described as the second
\* and the third are
BatchUhr ==
    SubSeq(UhrCatalogue, 1, 3)
        \o << [UhrCatalogue[2] EXCEPT !.case_number = "U5"],
               [UhrCatalogue[3] EXCEPT !.case_number = "U6"] >>

InitBatch ==
    /\ \E M \in SUBSET (1..Len(MpCatalogue)) :
          /\ Cardinality(M) <= MaxMp
          /\ db = [uhr |-> BatchUhr, mp |-> RowsOf(MpCatalogue, M)]
    /\ matcher = NewMatcher
    /\ num_workers = 0
    /\ pc = "idle"
    /\ args = NoArgs
    /\ stats = StatsOf(NewMatcher)
    /\ chunks = << >>
    /\ wk = << >>
    /\ collected = 0
    /\ all_leads = << >>
    /\ outcome = NoOutcome
    /\ calls = 0
    /\ probe = NoProbe
    /\ conns = << >>

\* calls of find_leads over the batch
SpecBatch == (InitBatch \/ InitProbe) /\ [][Next]_vars

----------------------------------------------------------------------------
(* Single functions, applied to arguments drawn from bounded sets *)

\* collection sizes tried: every size up to MaxDocs, and two large ones
MaxDocs == 6
LargeTotals == {100, 1000}
TotalDocs == (1..MaxDocs) \cup LargeTotals

\* document frequencies tried for a collection of a given size
DocCounts(total_docs) ==
    IF total_docs <= MaxDocs THEN 0..total_docs ELSE {0, 1, 2, 5, 10, total_docs}

\* a Counter holding one count
CounterOf(word, count) == [w \in Tokens |-> IF w = word THEN count ELSE 0]

\* no call of find_leads is under way
NoRun ==
    /\ db = [uhr |-> << >>, mp |-> << >>]
    /\ matcher = NewMatcher
    /\ num_workers = 0
    /\ args = NoArgs
    /\ stats = StatsOf(NewMatcher)
    /\ chunks = << >>
    /\ wk = << >>
    /\ collected = 0
    /\ all_leads = << >>
    /\ outcome = NoOutcome
    /\ calls = 0
    /\ conns = << >>

\* a function about to be applied to the arguments x, y, z
FnCall(fn, x, y, z) == [fn |-> fn, x |-> x, y |-> y, z |-> z, out |-> << >>]

Applying(fn) == pc = "fn" /\ probe.fn = fn
Applied(fn) == pc = "fn_done" /\ probe.fn = fn

FnReturn(out) ==
    /\ probe' = [probe EXCEPT !.out = out]
    /\ pc' = "fn_done"
    /\ UNCHANGED <<db, matcher, num_workers, args, stats, chunks, wk, collected,
                   all_leads, outcome, calls, conns>>

\* calculate_specificity of a non-stop word at two document frequencies
\* y < z of a collection of x documents
InitSpecificity ==
    /\ NoRun
    /\ pc = "fn"
    /\ \E total_docs \in TotalDocs :
          \E c1, c2 \in DocCounts(total_docs) :
              /\ c1 < c2
              /\ probe = FnCall("calculate_specificity", total_docs, c1, c2)

ApplySpecificity ==
    /\ Applying("calculate_specificity")
    /\ FnReturn(<<CalculateSpecificity("nike", CounterOf("nike", probe.y), probe.x),
                  CalculateSpecificity("nike", CounterOf("nike", probe.z), probe.x)>>)

\* descriptions tried: NULL, empty, only stop words and short or numeric words,
\* the descriptions of the catalogues, and one with fifteen scoring words
TextSamples ==
    {NullText, Text(<< >>), Text(<<"blue", "on", "42">>),
     Text(<<"blue", "nike", "hoodie", "scar", "left", "arm">>),
     Text(<<"blue", "nike", "hoodie", "scar", "left", "forearm">>),
     Text(<<"Tattoo", "male", "42">>), Text(<<"scar", "tattoo">>),
     Text(<<"nike", "hoodie", "scar", "left", "arm", "forearm", "tattoo", "ring",
            "watch", "boots", "jeans", "belt", "glasses", "necklace", "bracelet">>)}

\* the instance before load_stats, and after load_stats over the catalogues
MatcherSamples ==
    {NewMatcher, LoadStats(NewMatcher, [uhr |-> UhrCatalogue, mp |-> MpCatalogue])}

\* score_text_overlap on the word sets of two descriptions x and y, on instance z
InitScoreText ==
    /\ NoRun
    /\ pc = "fn"
    /\ \E d1, d2 \in TextSamples, self \in MatcherSamples :
          probe = FnCall("score_text_overlap", d1, d2, self)

ApplyScoreText ==
    /\ Applying("score_text_overlap")
    /\ LET r == ScoreTextOverlap(DescWords(probe.x), DescWords(probe.y), probe.z)
       IN  FnReturn([score |-> r.score, features |-> r.features])

\* calculate_geo_score at two known distances x < y
GeoSamples == DOMAIN GeoTable

InitGeoScore ==
    /\ NoRun
    /\ pc = "fn"
    /\ \E d1, d2 \in GeoSamples :
          /\ d1 < d2
          /\ probe = FnCall("calculate_geo_score", d1, d2, 0)

ApplyGeoScore ==
    /\ Applying("calculate_geo_score")
    /\ FnReturn(<<CalculateGeoScore(probe.x), CalculateGeoScore(probe.y)>>)

\* the chunking of lines 165-166 on x records for y workers
MaxRecords == 8
MaxPool == 4

InitChunks ==
    /\ NoRun
    /\ pc = "fn"
    /\ \E n \in 0..MaxRecords, nw \in 1..MaxPool :
          probe = FnCall("chunks", n, nw, 0)

ApplyChunks ==
    /\ Applying("chunks")
    /\ FnReturn(Chunks([i \in 1..probe.x |-> i], probe.y))

\* the chunk size of line 165 for x records and y workers
InitChunkSize ==
    /\ NoRun
    /\ pc = "fn"
    /\ \E n \in 1..MaxRecords, nw \in 1..MaxPool :
          probe = FnCall("chunk_size", n, nw, 0)

ApplyChunkSize ==
    /\ Applying("chunk_size")
    /\ FnReturn(ChunkSize(probe.x, probe.y))

\* sample statuses: NULL, a sample on file, a sample asked for, none
SampleStatuses == {NONE, "Complete", "Submitted", "Not Available"}

\* calculate_bio_multiplier on the statuses x = <<dna, dental>> of the
\* unidentified record and y = <<dna, dental>> of the missing person
InitBioMultiplier ==
    /\ NoRun
    /\ pc = "fn"
    /\ \E u_dna, u_dental, m_dna, m_dental \in SampleStatuses :
          probe = FnCall("calculate_bio_multiplier", <<u_dna, u_dental>>,
                         <<m_dna, m_dental>>, 0)

ApplyBioMultiplier ==
    /\ Applying("calculate_bio_multiplier")
    /\ FnReturn(CalculateBioMultiplier(probe.x[1], probe.x[2],
                                       probe.y[1], probe.y[2]))

\* race values: NULL, the empty string, and three names
RaceValues == {NONE, "", "White", "Black", "Uncertain"}

\* calculate_phenotypic_score on the races x and y
InitPhenotypic ==
    /\ NoRun
    /\ pc = "fn"
    /\ \E u_race, m_race \in RaceValues :
          probe = FnCall("calculate_phenotypic_score", u_race, m_race, 0)

ApplyPhenotypic ==
    /\ Applying("calculate_phenotypic_score")
    /\ FnReturn(CalculatePhenotypicScore(probe.x, probe.y))

InitFn ==
    \/ InitSpecificity
    \/ InitScoreText
    \/ InitGeoScore
    \/ InitChunks
    \/ InitChunkSize
    \/ InitBioMultiplier
    \/ InitPhenotypic

NextFn ==
    \/ ApplySpecificity
    \/ ApplyScoreText
    \/ ApplyGeoScore
    \/ ApplyChunks
    \/ ApplyChunkSize
    \/ ApplyBioMultiplier
    \/ ApplyPhenotypic

SpecFn == InitFn /\ [][NextFn]_vars

----------------------------------------------------------------------------
(* Properties *)

Done == pc = "done"
Returned == Done /\ outcome.status = "returned"
Raised == Done /\ outcome.status = "raised"
InCall == pc \in {"running", "shutdown"}

\* processed_uhr of the current call, and the rows by their unique numbers
ProcessedUhr == [i \in 1..Len(db.uhr) |-> ProcessUhr(db.uhr[i])]
UhrRow(case_number) == CHOOSE r \in Range(db.uhr) : r.case_number = case_number
MpRow(file_number) == CHOOSE r \in Range(db.mp) : r.file_number = file_number

\* every lead held anywhere: in an invocation's results, merged, or returned
RECURSIVE Flatten(_, _)
Flatten(w, i) == IF i > Len(w) THEN << >> ELSE w[i].results \o Flatten(w, i + 1)
WorkerLeads == Flatten(wk, 1)
AllEmitted == Range(WorkerLeads) \cup Range(all_leads) \cup Range(outcome.leads)

\* the pairs that pass the hard filters, as the code applies them
PassesFilters(u, m) ==
    TimelineOk(u, m) /\ SexOk(u, m) /\ GeoOk(u, m) /\ ~AgeExcluded(u, m)
CandidatePairs ==
    {p \in Range(ProcessedUhr) \X Range(db.mp) : PassesFilters(p[1], p[2])}
HasLead(leads, u, m) ==
    \E l \in Range(leads) : l.uhr_case = u.u_num /\ l.mp_file = m.file_number

DateKnown(d) == TruthyNum(d)
TooLate(u_date, m_date) == DateKnown(u_date) /\ DateKnown(m_date) /\ m_date > u_date

\* C1: no lead pairs an unidentified record with a missing person whose known
\* last-seen date is strictly later than the known discovery date
C1_TimelineFilter ==
    \A l \in AllEmitted :
        ~TooLate(UhrRow(l.uhr_case).discovery_date, MpRow(l.mp_file).last_seen_date)

\* C1 witness: a call returned leads although a pair of the database qualified
\* on everything but the timeline
C1_TimelineFilterActed ==
    /\ Returned
    /\ outcome.leads # << >>
    /\ \E u \in Range(ProcessedUhr), m \in Range(db.mp) :
          /\ TooLate(u.u_date, m.last_seen_date)
          /\ SexOk(u, m) /\ GeoOk(u, m) /\ ~AgeExcluded(u, m)
          /\ ~LeadRaises(u, m)
          /\ Qualifies(ScorePair(u, m, InstallStats(stats)).final_score, args.min_score)

\* the database of the end-to-end example
ExampleDb == db = [uhr |-> <<UhrCatalogue[1]>>, mp |-> <<MpCatalogue[1]>>]
FeatureWords(l) == {l.shared_features[i].word : i \in 1..Len(l.shared_features)}

\* C2 as claimed: on the example database, min_score 0.35 gives exactly one lead,
\* with score >= 0.35 and features for "hoodie" and "scar"
C2_ExampleOneLead ==
    (ExampleDb /\ Done /\ args.min_score = DefaultMinScore /\ args.limit >= 1) =>
        /\ outcome.status = "returned"
        /\ Len(outcome.leads) = 1
        /\ outcome.leads[1].score >= 350
        /\ {"hoodie", "scar"} \subseteq FeatureWords(outcome.leads[1])

\* C2 amended: on the example database the call returns, with min_score 0.35
\* no lead at all, and with min_score 0 the pair with score 0.150 and no
\* shared feature (every common token has specificity 0)
C2_ExampleNoLead ==
    (ExampleDb /\ Done) =>
        /\ outcome.status = "returned"
        /\ args.min_score = DefaultMinScore => outcome.leads = << >>
        /\ (args.min_score = 0 /\ args.limit >= 1) =>
              /\ Len(outcome.leads) = 1
              /\ outcome.leads[1].uhr_case = "U1" /\ outcome.leads[1].mp_file = "M1"
              /\ outcome.leads[1].score = 150
              /\ outcome.leads[1].shared_features = << >>

\* C2 witness: the example was run with min_score 0.35 and a limit of at least 1
C2_ExampleRun ==
    ExampleDb /\ Returned /\ args.min_score = DefaultMinScore /\ args.limit >= 1

\* what find_leads(parallel=False) makes of the same records, stats and min_score
SequentialRun ==
    MatchChunkFrom(ProcessedUhr, 1, db.mp, args.min_score,
                   [raised |-> FALSE, results |-> << >>, self |-> InstallStats(stats)])

\* C3: the parallel path ends as the sequential path does, with the same set of
\* leads before truncation
C3_ParallelEqualsSequential ==
    (Done /\ args.parallel) =>
        LET seq == SequentialRun
        IN  /\ outcome.status = "raised" <=> seq.raised
            /\ outcome.status = "returned" =>
                  /\ Range(all_leads) = Range(seq.results)
                  /\ Len(all_leads) = Len(seq.results)

\* C3 witness: a parallel call over several chunks returned leads of two records
C3_ParallelMerged ==
    /\ Returned /\ args.parallel /\ Len(chunks) >= 2
    /\ \E a, b \in Range(all_leads) : a.uhr_case # b.uhr_case

FailedChunk == \E i \in 1..Len(wk) : wk[i].status = "failed"

\* C4: with a failed invocation the parallel call returns no list and ends
\* raising, and a failed chunk is never run again
C4_FailFast ==
    /\ []((args.parallel /\ FailedChunk) =>
              /\ outcome.status # "returned"
              /\ Done => outcome = [status |-> "raised", leads |-> << >>])
    /\ [][\A i \in 1..Len(wk) :
              (wk[i].status = "failed" /\ calls' = calls /\ pc' # "idle") =>
                  (Len(wk') = Len(wk) /\ wk'[i] = wk[i])]_vars

\* C4 witness: a parallel call raised although another chunk had produced leads
C4_PartialResultsDropped ==
    /\ Raised /\ args.parallel
    /\ \E i, j \in 1..Len(wk) :
          wk[i].status = "failed" /\ wk[j].status = "done" /\ wk[j].results # << >>

\* C5 as claimed: a candidate pair with a NULL or empty description on either
\* side has text score 0 and no matched token, and when its final score reaches
\* min_score the call returns with that pair among the leads
C5_MissingDescriptionNoError ==
    Done =>
        \A p \in CandidatePairs :
            (~TruthyText(p[1].u_desc) \/ ~TruthyText(p[2].description)) =>
                LET sp == ScorePair(p[1], p[2], InstallStats(stats))
                IN  /\ sp.text_score = 0
                    /\ sp.features = << >>
                    /\ Qualifies(sp.final_score, args.min_score) =>
                          (outcome.status = "returned" /\ HasLead(all_leads, p[1], p[2]))

\* C6: the combined score is in [0, 1] for all sub-scores in [0, 1] and both
\* multipliers, and so is the score of every lead
C6_ScoreInUnitInterval ==
    /\ pc = "probed" =>
          /\ 0 <= probe.final /\ probe.final <= ONE
          /\ 0 <= probe.score /\ probe.score <= 1000
    /\ \A l \in AllEmitted : 0 <= l.score /\ l.score <= 1000

\* C6 witness: the clamp acted on a boosted composite above 1.0
C6_ClampActed ==
    /\ pc = "probed"
    /\ probe.multiplier = 15
    /\ CombineUnclamped(probe.text, probe.geo, probe.pheno, probe.multiplier) > ONE
    /\ probe.final = ONE

\* the stats an invocation i scores with
Tables(st) == <<st.uhr_df, st.mp_df, st.uhr_total, st.mp_total>>
CacheKept(old, new) ==
    \A w \in DOMAIN old : w \in DOMAIN new /\ new[w] = old[w]

\* C7 as claimed: during a call no step changes any part of the stats handed to
\* the scoring code
C7_StatsReadOnly ==
    [][InCall =>
          /\ stats' = stats
          /\ \A i \in 1..Len(wk) : wk'[i].self = wk[i].self]_vars

\* C7 amended: during a call the document-frequency tables and the totals never
\* change; the idf_cache carried with them only gains entries
C7_TablesReadOnly ==
    [][InCall =>
          /\ Tables(stats') = Tables(stats)
          /\ CacheKept(stats.idf_cache, stats'.idf_cache)
          /\ \A i \in 1..Len(wk) :
                /\ Tables(wk'[i].self) = Tables(wk[i].self)
                /\ Tables(wk[i].self) = Tables(stats)
                /\ CacheKept(wk[i].self.idf_cache, wk'[i].self.idf_cache)]_vars

\* C7 witness: an invocation of a parallel call has written its idf_cache
C7_CacheWritten ==
    /\ InCall /\ args.parallel
    /\ \E i \in 1..Len(wk) : wk[i].self.idf_cache # stats.idf_cache

\* what a freshly constructed matcher returns for the current database and
\* the arguments of the call
FreshOutcome ==
    LET self == LoadStats(NewMatcher, db)
        r == MatchChunkFrom(ProcessedUhr, 1, db.mp, args.min_score,
                            [raised |-> FALSE, results |-> << >>,
                             self |-> InstallStats(StatsOf(self))])
    IN  IF r.raised THEN [status |-> "raised", leads |-> << >>]
        ELSE [status |-> "returned",
              leads |-> Truncate(SortLeads(r.results), args.limit)]

\* C8 as claimed: every call ends as a call on a fresh matcher would
C8_Stateless == Done => outcome = FreshOutcome

\* C9 as claimed: when the call is over, a pair that passed the hard filters is
\* among the leads exactly when its final score reaches min_score
C9_EmittedIffQualifies ==
    Done =>
        \A p \in CandidatePairs :
            HasLead(all_leads, p[1], p[2])
              <=> Qualifies(ScorePair(p[1], p[2], InstallStats(stats)).final_score,
                            args.min_score)

\* C10: the returned list is non-increasing in score, holds min(limit, number of
\* leads) of the merged leads, and no lead left out scores higher than one returned
C10_TopLimit ==
    (Returned /\ args.limit >= 0) =>
        LET ret == outcome.leads
            pool == WorkerLeads
        IN  /\ \A i \in 1..(Len(ret) - 1) : ret[i].score >= ret[i + 1].score
            /\ Len(ret) = Min(args.limit, Len(pool))
            /\ Range(ret) \subseteq Range(pool)
            /\ \A x \in Range(pool) \ Range(ret), y \in Range(ret) : x.score <= y.score

\* C10 witness: with limit 1 the lead returned is not the first one found
C10_SortMattered ==
    /\ Returned /\ args.limit = 1
    /\ Len(WorkerLeads) >= 2
    /\ WorkerLeads[1].score < outcome.leads[1].score


\* C11 as claimed: for a fixed number of documents, the specificity of a
\* non-stop word at a lower document frequency is never below its specificity
\* at a higher one, the step from frequency 0 to frequency 1 included
C11_SpecificityMonotone ==
    Applied("calculate_specificity") => probe.out[1] >= probe.out[2]

\* the token set of a description as the claim describes it
ScoringTokens(text) ==
    {w \in {Lower(x) : x \in Range(text.words)} :
        w \notin stop_words /\ Len(w) > 2 /\ ~IsDigit(w)}

NoOverlap(d1, d2) ==
    \/ d1.null \/ d1.words = << >>
    \/ d2.null \/ d2.words = << >>
    \/ ScoringTokens(d1) \cap ScoringTokens(d2) = {}

\* C12: the text score is 0 with no features when a description is missing or
\* empty or the token sets are disjoint, and lies in [0, 1] otherwise
C12_TextScoreZeroOrUnit ==
    Applied("score_text_overlap") =>
        IF NoOverlap(probe.x, probe.y)
        THEN probe.out.score = 0 /\ probe.out.features = << >>
        ELSE 0 <= probe.out.score /\ probe.out.score <= ONE

\* C12 witness: two non-empty descriptions with disjoint token sets were scored
C12_DisjointScored ==
    /\ Applied("score_text_overlap")
    /\ ScoringTokens(probe.x) # {} /\ ScoringTokens(probe.y) # {}
    /\ ScoringTokens(probe.x) \cap ScoringTokens(probe.y) = {}
    /\ probe.out.score = 0

\* C12: a pair sharing fifteen unseen words reached the clamp at 1.0, and a pair
\* sharing fewer scored strictly between 0 and 1
C12_ClampReached == Applied("score_text_overlap") /\ probe.out.score = ONE
C12_PartialScore ==
    Applied("score_text_overlap") /\ 0 < probe.out.score /\ probe.out.score < ONE

\* a pair one of whose four coordinates is unknown
CoordinateUnknown(u, m) ==
    NULL \in {u.u_lat, u.u_lon, m.last_seen_lat, m.last_seen_lon}

HasMiles(l) ==
    \E i \in 1..Len(l.shared_features) : l.shared_features[i].kind = "miles"

\* the score a lead of the pair gets when its geo sub-score is geo_score
ScoreWithGeo(u, m, geo_score) ==
    Round3(Combine(ScorePair(u, m, InstallStats(stats)).text_score, geo_score,
                   CalculatePhenotypicScore(u.u_race, m.race),
                   CalculateBioMultiplier(u.u_dna, u.u_dental,
                                          m.dna_status, m.dental_status)))

\* C13: for every pair with an unknown coordinate the distance is unknown and the
\* geo sub-score is 0.5; a lead of such a pair is scored with 0.5 and carries no
\* distance annotation; and a call raises only over a missing description
C13_UnknownCoordinateNeutral ==
    /\ \A u \in Range(ProcessedUhr), m \in Range(db.mp) :
          CoordinateUnknown(u, m) =>
              LET dist == HaversineDistance(u.u_lat, u.u_lon,
                                            m.last_seen_lat, m.last_seen_lon)
              IN  dist = NULL /\ CalculateGeoScore(dist) = ONE \div 2
    /\ \A l \in AllEmitted :
          LET u == ProcessUhr(UhrRow(l.uhr_case))
              m == MpRow(l.mp_file)
          IN  CoordinateUnknown(u, m) =>
                  ~HasMiles(l) /\ l.score = ScoreWithGeo(u, m, ONE \div 2)
    /\ Raised => \E u \in Range(ProcessedUhr), m \in Range(db.mp) : LeadRaises(u, m)

\* C13 witness: a call returned a lead of a pair with an unknown coordinate next
\* to a lead with a distance annotation
C13_UnknownCoordinateLead ==
    /\ Returned
    /\ \E l \in Range(outcome.leads) :
          CoordinateUnknown(ProcessUhr(UhrRow(l.uhr_case)), MpRow(l.mp_file))
    /\ \E l \in Range(outcome.leads) : HasMiles(l)

\* C14: the geo score of distance 0 is 1.0, a larger distance scores strictly
\* less than a smaller one, and every score is in (0, 1]
C14_GeoScoreDecreasing ==
    /\ CalculateGeoScore(0) = ONE
    /\ Applied("calculate_geo_score") =>
          /\ probe.out[1] > probe.out[2]
          /\ \A i \in 1..2 : 0 < probe.out[i] /\ probe.out[i] <= ONE

\* C14 witness: two distances under 50 miles were scored
C14_NearDistancesScored ==
    Applied("calculate_geo_score") /\ 0 < probe.x /\ probe.y < 50000

\* the statistics of the instance were built once, by the call under way or over
Built == calls = 1

\* the number of rows whose description holds the token w (a lowercase word of
\* more than 2 characters that is not a number), and the number of rows that
\* have a description
DocsWith(rows, w) ==
    Cardinality({i \in 1..Len(rows) : w \in GetWords(rows[i].description)})
DocsDescribed(rows) ==
    Cardinality({i \in 1..Len(rows) : TruthyText(rows[i].description)})

\* C15 as claimed: after the build the tables hold the document count of every
\* token of the collection, stop words included
C15_TablesHoldStopWords ==
    Built =>
        \A w \in Tokens :
            /\ matcher.uhr_df[w] = DocsWith(db.uhr, w)
            /\ matcher.mp_df[w] = DocsWith(db.mp, w)

\* C15 amended: after the build the tables hold the document count of every
\* token that is not a stop word and count nothing for a stop word, which is
\* also scored 0 at scoring time
C15_StopWordsRemovedAtBuild ==
    Built =>
        \A w \in Tokens :
            IF w \in stop_words
            THEN /\ matcher.uhr_df[w] = 0 /\ matcher.mp_df[w] = 0
                 /\ CalculateSpecificity(w, matcher.uhr_df, matcher.uhr_total) = 0
                 /\ CalculateSpecificity(w, matcher.mp_df, matcher.mp_total) = 0
            ELSE /\ matcher.uhr_df[w] = DocsWith(db.uhr, w)
                 /\ matcher.mp_df[w] = DocsWith(db.mp, w)

\* C15 witness: statistics were built over descriptions holding a stop word and
\* a counted word
C15_StopWordInCollection ==
    /\ Built
    /\ \E w \in Tokens \cap stop_words : DocsWith(db.uhr, w) > 0
    /\ \E w \in Tokens : matcher.uhr_df[w] > 0

\* C16 as claimed: after one build each total is the number of documents of the
\* collection and each counted token's count the number of documents holding it
C16_TotalsCountEveryDocument ==
    Built =>
        /\ matcher.uhr_total = Len(db.uhr)
        /\ matcher.mp_total = Len(db.mp)
        /\ \A w \in Tokens :
              /\ matcher.uhr_df[w] > 0 => matcher.uhr_df[w] = DocsWith(db.uhr, w)
              /\ matcher.mp_df[w] > 0 => matcher.mp_df[w] = DocsWith(db.mp, w)

\* C16 amended: after one build each total is the number of documents that have
\* a non-empty description, each counted token's count is the number of
\* documents holding it, and no count exceeds its total
C16_TotalsCountDescribedDocuments ==
    Built =>
        /\ matcher.uhr_total = DocsDescribed(db.uhr)
        /\ matcher.mp_total = DocsDescribed(db.mp)
        /\ \A w \in Tokens :
              /\ matcher.uhr_df[w] > 0 => matcher.uhr_df[w] = DocsWith(db.uhr, w)
              /\ matcher.mp_df[w] > 0 => matcher.mp_df[w] = DocsWith(db.mp, w)
              /\ matcher.uhr_df[w] <= matcher.uhr_total
              /\ matcher.mp_df[w] <= matcher.mp_total

\* C16 witness: one build over a collection with a document without description
\* and a token held by two documents
C16_SharedTokenCounted ==
    /\ Built
    /\ DocsDescribed(db.uhr) < Len(db.uhr)
    /\ \E w \in Tokens : matcher.uhr_df[w] = 2

\* a pair that passes every hard filter but the one named
PassesButAge(u, m) == TimelineOk(u, m) /\ SexOk(u, m) /\ GeoOk(u, m)
PassesButSex(u, m) == TimelineOk(u, m) /\ GeoOk(u, m) /\ ~AgeExcluded(u, m)
PassesButGeo(u, m) == TimelineOk(u, m) /\ SexOk(u, m) /\ ~AgeExcluded(u, m)

\* a call with min_score 0 returned: every candidate pair is among all_leads
ReturnedAll == Returned /\ args.min_score = 0

\* C17 as claimed: a lead with a known age range and a known age (0 included)
\* has the age within the range widened by 10 on both sides, and a pair with
\* an unknown age on a side is not excluded by the age filter
C17_AgeWindow ==
    /\ \A l \in AllEmitted :
          LET u == UhrRow(l.uhr_case)
              a == MpRow(l.mp_file).age_at_disappearance
          IN  (u.estimated_age_min # NULL /\ u.estimated_age_max # NULL /\ a # NULL) =>
                  /\ u.estimated_age_min - AgeTolerance <= a
                  /\ a <= u.estimated_age_max + AgeTolerance
    /\ ReturnedAll =>
          \A u \in Range(ProcessedUhr), m \in Range(db.mp) :
              (/\ PassesButAge(u, m)
               /\ \/ (u.u_age_min = NULL /\ u.u_age_max = NULL)
                  \/ m.age_at_disappearance = NULL)
                => HasLead(all_leads, u, m)

SexKnown(s) == s \notin {NONE, "Unknown", "Uncertain"}

\* C18: a pair that passes the other filters is left out exactly when both sexes
\* are known and differ, and no lead pairs two different known sexes
C18_SexFilter ==
    /\ ReturnedAll =>
          \A u \in Range(ProcessedUhr), m \in Range(db.mp) :
              PassesButSex(u, m) =>
                  (~HasLead(all_leads, u, m)
                     <=> (SexKnown(u.u_sex) /\ SexKnown(m.sex) /\ u.u_sex # m.sex))
    /\ \A l \in AllEmitted :
          LET us == UhrRow(l.uhr_case).estimated_sex
              ms == MpRow(l.mp_file).sex
          IN  ~(SexKnown(us) /\ SexKnown(ms) /\ us # ms)

\* C18 witness: a lead pairs a known sex with an unknown or uncertain one
C18_UnknownSexLead ==
    /\ ReturnedAll
    /\ \E l \in Range(all_leads) :
          /\ SexKnown(UhrRow(l.uhr_case).estimated_sex)
          /\ MpRow(l.mp_file).sex \in {NONE, "Unknown", "Uncertain"}

Within(x, y, d) == x - d <= y /\ y <= x + d

\* C19: for an unidentified record with both coordinates, a lead's missing
\* person with known coordinates lies within 8 degrees in latitude and in
\* longitude; for one lacking a coordinate no pair is left out on geography
C19_GeoBox ==
    /\ \A l \in AllEmitted :
          LET u == UhrRow(l.uhr_case)
              m == MpRow(l.mp_file)
          IN  (/\ u.discovery_lat # NULL /\ u.discovery_lon # NULL
               /\ m.last_seen_lat # NULL /\ m.last_seen_lon # NULL)
                => /\ Within(u.discovery_lat, m.last_seen_lat, GeoBox)
                   /\ Within(u.discovery_lon, m.last_seen_lon, GeoBox)
    /\ ReturnedAll =>
          \A u \in Range(ProcessedUhr), m \in Range(db.mp) :
              (PassesButGeo(u, m) /\ (u.u_lat = NULL \/ u.u_lon = NULL))
                => HasLead(all_leads, u, m)

\* C19 witness: a lead whose missing person was last seen on the corner of the box
C19_CornerLead ==
    /\ Returned
    /\ \E l \in Range(outcome.leads) :
          LET u == UhrRow(l.uhr_case)
              m == MpRow(l.mp_file)
          IN  /\ u.discovery_lat # NULL /\ u.discovery_lon # NULL
              /\ m.last_seen_lat = u.discovery_lat + GeoBox
              /\ m.last_seen_lon = u.discovery_lon + GeoBox

\* the concatenation of the chunks cs from chunk i on
RECURSIVE Concat(_, _)
Concat(cs, i) == IF i > Len(cs) THEN << >> ELSE cs[i] \o Concat(cs, i + 1)

\* C20 as claimed: the records are cut into contiguous chunks, exactly as many
\* as there are workers (as many as there are records when those are fewer),
\* so never more chunks than workers
C20_ChunksWithinWorkers ==
    Applied("chunks") =>
        /\ Concat(probe.out, 1) = [i \in 1..probe.x |-> i]
        /\ Len(probe.out) = Min(probe.x, probe.y)
        /\ Len(probe.out) <= probe.y

\* the least whole number that is at least n / w
Ceiling(n, w) == (n + w - 1) \div w

\* C21 as claimed: the chunk size that splits n >= 1 records among w >= 1
\* workers is the ceiling of n / w
C21_ChunkSizeIsCeiling ==
    Applied("chunk_size") => probe.out = Ceiling(probe.x, probe.y)

BothComplete(u_status, m_status) == u_status = "Complete" /\ m_status = "Complete"

\* C22: the biological-evidence multiplier is 1.5 exactly when the DNA status
\* of both records is 'Complete' or the dental status of both records is
\* 'Complete', and 1.0 in every other case; it takes no other value
C22_BioMultiplier ==
    Applied("calculate_bio_multiplier") =>
        /\ probe.out \in {10, 15}
        /\ probe.out = 15 <=> \/ BothComplete(probe.x[1], probe.y[1])
                              \/ BothComplete(probe.x[2], probe.y[2])

\* C22 witness: a complete DNA sample on one side and a complete dental record
\* on the other have been given the multiplier 1.0
C22_MixedKindsUnboosted ==
    /\ Applied("calculate_bio_multiplier")
    /\ probe.x = <<"Complete", "Submitted">>
    /\ probe.y = <<NONE, "Complete">>
    /\ probe.out = 10

RaceKnown(race) == race # NONE /\ race # ""

\* C23: the phenotype sub-score is 1.0 exactly when both race values are known
\* and equal, and 0 when they differ or either is unknown; it takes no other
\* value
C23_PhenotypicScore ==
    Applied("calculate_phenotypic_score") =>
        /\ probe.out \in {0, ONE}
        /\ probe.out = ONE <=> /\ RaceKnown(probe.x)
                               /\ RaceKnown(probe.y)
                               /\ probe.x = probe.y

\* C23 witness: two records of the same known race have been scored 1.0
C23_SameRaceScored ==
    /\ Applied("calculate_phenotypic_score")
    /\ probe.x = "White"
    /\ probe.y = "White"
    /\ probe.out = ONE

\* the place in a chunk of the record with a given case number
PlaceIn(chunk, case_number) ==
    CHOOSE k \in DOMAIN chunk : chunk[k].u_num = case_number

\* C24: in the result list of an invocation of _match_chunk the leads stand in
\* the order of their unidentified records in the chunk: every lead of a record
\* precedes every lead of a record that comes later in the chunk
C24_ChunkLeadsInRecordOrder ==
    \A i \in DOMAIN wk :
        \A j, k \in DOMAIN wk[i].results :
            j < k => PlaceIn(chunks[i], wk[i].results[j].uhr_case)
                         <= PlaceIn(chunks[i], wk[i].results[k].uhr_case)

\* C24 witness: an invocation holds leads of two records of its chunk
C24_TwoRecordsLed ==
    \E i \in DOMAIN wk :
        \E j, k \in DOMAIN wk[i].results :
            /\ j < k
            /\ PlaceIn(chunks[i], wk[i].results[j].uhr_case)
                   < PlaceIn(chunks[i], wk[i].results[k].uhr_case)

\* the invocations of _match_chunk that have begun
Begun == {i \in DOMAIN wk : wk[i].status # "queued"}

\* C25: every invocation of _match_chunk that has begun has a connection of its
\* own, other than the coordinator's and other than that of any other
\* invocation; a connection is queried only by the invocation that opened it;
\* the connection of an invocation is open while it runs and closed once it has
\* ended, normally or by an exception; and after find_leads has returned or
\* raised every connection of the call, the coordinator's included, is closed
C25_OwnConnections ==
    /\ \A i \in Begun :
           /\ wk[i].conn \in DOMAIN conns
           /\ conns[wk[i].conn].owner = i
           /\ Running(i) => conns[wk[i].conn].open
           /\ Terminal(i) => ~conns[wk[i].conn].open
    /\ \A i, j \in Begun : i # j => wk[i].conn # wk[j].conn
    /\ \A c \in DOMAIN conns :
           /\ conns[c].used_by \subseteq {conns[c].owner}
           /\ conns[c].owner = 0 <=> c = 1
    /\ InCall => conns[1].open
    /\ Done => \A c \in DOMAIN conns : ~conns[c].open

\* C25 witness: a parallel call has raised after one invocation failed and
\* another ended normally, and the connections of both are closed
C25_ClosedAfterFailure ==
    /\ Raised
    /\ args.parallel
    /\ \E i, j \in Begun :
           /\ wk[i].status = "failed"
           /\ wk[j].status = "done"
           /\ conns[wk[j].conn].used_by = {j}
           /\ ~conns[wk[i].conn].open
           /\ ~conns[wk[j].conn].open
    /\ ~conns[1].open

\* every future has been merged and the list is not yet sorted
AllMerged == pc = "running" /\ args.parallel /\ collected = Len(wk)

\* C26: in the parallel path, whatever the order in which the invocations end,
\* the merged list before sorting is the list the sequential path builds from
\* the same records, and the list returned is the one the sequential path
\* returns, leads of equal score in the same order
C26_MergedAsSequential ==
    /\ AllMerged => all_leads = SequentialRun.results
    /\ (Returned /\ args.parallel) =>
           outcome.leads = Truncate(SortLeads(SequentialRun.results), args.limit)

\* the invocation on the second chunk has ended while the one on the first
\* still runs, and nothing is merged yet
C26_SecondEndedFirst ==
    /\ pc = "running" /\ args.parallel /\ collected = 0
    /\ Len(wk) >= 2
    /\ wk[1].status = "running"
    /\ wk[2].status = "done"
    /\ wk[2].results # << >>

\* C26 witness: every future of a call over several chunks is merged, and two
\* leads of equal score come from the first and from the second chunk
C26_TieAcrossChunks ==
    /\ AllMerged /\ Len(chunks) >= 2
    /\ \E j, k \in DOMAIN all_leads :
           /\ j < k
           /\ all_leads[j].score = all_leads[k].score
           /\ all_leads[j].uhr_case \in {u.u_num : u \in Range(chunks[1])}
           /\ all_leads[k].uhr_case \in {u.u_num : u \in Range(chunks[2])}

\* the chunks that hold record u
ChunksHolding(u) == {i \in DOMAIN chunks : u \in Range(chunks[i])}

\* the (unidentified, missing) pair a lead names
PairOf(lead) == <<lead.uhr_case, lead.mp_file>>

\* C27: the chunks of a parallel call, laid end to end, are the list of the
\* unidentified records; no chunk is empty and every record is in exactly one
\* chunk; and no (unidentified, missing) pair occurs twice in the merged list
C27_ChunksPartition ==
    ((InCall \/ Done) /\ args.parallel) =>
        /\ Concat(chunks, 1) = ProcessedUhr
        /\ \A i \in DOMAIN chunks : chunks[i] # << >>
        /\ \A u \in Range(ProcessedUhr) : Cardinality(ChunksHolding(u)) = 1
        /\ \A j, k \in DOMAIN all_leads :
               j # k => PairOf(all_leads[j]) # PairOf(all_leads[k])

\* C27 witness: a parallel call over chunks of unequal length has returned,
\* with leads of records of two chunks in its merged list
C27_UnevenChunksMerged ==
    /\ Returned /\ args.parallel
    /\ \E i, j \in DOMAIN chunks :
           /\ Len(chunks[i]) > Len(chunks[j])
           /\ \E a, b \in Range(all_leads) :
                  /\ a.uhr_case \in {u.u_num : u \in Range(chunks[i])}
                  /\ b.uhr_case \in {u.u_num : u \in Range(chunks[j])}

\* C28 as claimed: the reported score of every returned lead is at least the
\* min_score of the call, whatever the number of decimals of min_score
C28_ReportedAtLeastMinScore ==
    Returned => \A l \in Range(outcome.leads) : l.score * 1000 >= args.min_score

\* C28 as amended: the reported score of every returned lead is no more than
\* 0.0005 below the min_score of the call, and at least min_score when
\* min_score has at most 3 decimals
C28_ReportedWithinHalfThousandth ==
    Returned =>
        \A l \in Range(outcome.leads) :
            /\ l.score * 1000 >= args.min_score - 500
            /\ args.min_score % 1000 = 0 => l.score * 1000 >= args.min_score

\* C28 witness: a lead has been returned whose final score was rounded up past
\* a threshold that lies between two thousandths
C28_RoundedUpLead ==
    /\ Returned
    /\ args.min_score % 1000 # 0
    /\ \E l \in Range(outcome.leads) :
           /\ l.score * 1000 > args.min_score
           /\ l.score * 1000 < args.min_score + 1000

\* a missing person whose last-seen latitude or longitude is NULL
LastSeenUnknown(m) == m.last_seen_lat = NULL \/ m.last_seen_lon = NULL

\* C29 as claimed: a missing person with an unknown last-seen latitude or
\* longitude is not left out on geography, so a call with min_score 0 returns
\* a lead for it with every record whose other filters it passes, and each of
\* its leads is scored with the geo score 0.5
C29_UnknownLastSeenKept ==
    /\ ReturnedAll =>
           \A u \in Range(ProcessedUhr), m \in Range(db.mp) :
               (LastSeenUnknown(m) /\ PassesButGeo(u, m)) => HasLead(all_leads, u, m)
    /\ \A l \in AllEmitted :
           LET u == ProcessUhr(UhrRow(l.uhr_case))
               m == MpRow(l.mp_file)
           IN  LastSeenUnknown(m) => l.score = ScoreWithGeo(u, m, ONE \div 2)

\* the instances that hold statistics: the caller's and those of the invocations
Instances == {matcher} \cup {wk[i].self : i \in DOMAIN wk}

\* the words of a missing person's description that take part in scoring
MpWords(m) == DescWords(m.description)

\* C30: after any number of load_stats calls the count of a token in a
\* document-frequency table is at most the total of its collection (0 for a
\* token the table does not hold, at least 1 otherwise); every specificity and
\* every averaged specificity in idf_cache is at least 0; and, on the instance
\* as a call leaves it, a token added to both word sets of a pair does not
\* lower the pair's text score
C30_CountsWithinTotals ==
    /\ \A self \in Instances :
           /\ \A w \in Tokens :
                  /\ self.uhr_df[w] \in 0..self.uhr_total
                  /\ self.mp_df[w] \in 0..self.mp_total
                  /\ CalculateSpecificity(w, self.uhr_df, self.uhr_total) >= 0
                  /\ CalculateSpecificity(w, self.mp_df, self.mp_total) >= 0
           /\ \A w \in DOMAIN self.idf_cache : self.idf_cache[w] >= 0
    /\ Done =>
           \A u \in Range(ProcessedUhr), m \in Range(db.mp) :
               \A w \in Tokens \ (u.u_words \cap MpWords(m)) :
                   ScoreTextOverlap(u.u_words \cup {w}, MpWords(m) \cup {w},
                                    matcher).score
                       >= ScoreTextOverlap(u.u_words, MpWords(m), matcher).score

\* C30 witness: load_stats has run twice, a token that every described missing
\* person holds is counted as often as there are such documents, and its
\* averaged specificity is cached
C30_CountEqualsTotal ==
    /\ calls = 2
    /\ \E w \in DOMAIN matcher.idf_cache :
           /\ matcher.mp_total >= 2
           /\ matcher.mp_df[w] = matcher.mp_total
           /\ CalculateSpecificity(w, matcher.mp_df, matcher.mp_total) = 0

=============================================================================
